---- MODULE Spec2Model ----
(***************************************************************************)
(* A model of the pooled scans of Python_Network_Tools:                    *)
(*   - scan_ports_concurrent (Mini_Port_Scanner_Advanced.py) and main's    *)
(*     summary / export of its result,                                     *)
(*   - threaded_network_scan (Network_IP_Scanner.py),                      *)
(*   - discover_active_hosts (Recon_tool_Network+Port_Scanner.py),         *)
(* each a ThreadPoolExecutor with one consuming main thread, and of the    *)
(* port expanders parse_ports and parse_ports_simple.                      *)
(***************************************************************************)
EXTENDS Integers, Sequences, FiniteSets, TLC

VARIABLES
    mode,            \* which pooled run: "ports", "sweep", "discover"
    units,           \* the submitted list (ports, or hosts), in submission order
    max_workers,     \* the executor's max_workers
    pc,              \* position of the main thread
    nsub,            \* number of units submitted so far
    fstate,          \* per unit: state of its future
    behav,           \* per unit: what its probe did (once it has returned)
    queue,           \* the executor's work queue (FIFO); None is the wake-up item
    num_threads,     \* len(executor._threads)
    exited,          \* number of worker threads that have returned
    idleSem,         \* executor._idle_semaphore
    shutdownFlag,    \* executor._shutdown
    ready,           \* as_completed: futures already finished when it was called
    waiterq,         \* as_completed: waiter.finished_futures, in finishing order
    yielded,         \* futures as_completed has handed to the loop body
    results_open,    \* scan_ports_concurrent: results_open
    results_closed,  \* scan_ports_concurrent: results_closed
    active_hosts,    \* the ping sweeps: active_hosts
    console,         \* the lines printed by the loop body, in order
    interrupted,     \* "no", or where KeyboardInterrupt reached the main thread
    raising,         \* an exception is propagating out of the with-block
    report,          \* what the run handed back to its caller (NoReport: nothing)
    ncalls,          \* per unit: how many times its prober has been called
    finish_order,    \* the units whose probe has finished, in finishing order
    snapshot,        \* as_completed: the futures it found finished when called
    port_scans,      \* network_and_port_scanner: the hosts it has port-scanned
    summary,         \* main: the "Open ports" lines of the console summary
    logged,          \* log_scan: the open-port lines written to the log
    csv_rows,        \* export_csv: the rows of the result table
    json_data,       \* export_json: the "open" and "closed" arrays written
    export,          \* main: the answer to "Export results?"
    given,           \* the expanders: the tokens the input string was written from
    port_input,      \* the expanders: the input string, a sequence of characters
    parser,          \* which expander runs
    ppc,             \* position of the expander
    tokens,          \* the expanders: tokens not yet looked at
    pset,            \* parse_ports: the set `ports`
    plist,           \* parse_ports_simple: the list `ports`
    presult,         \* what the expander returned, or the error it raised
    caller,          \* the function that asks for its setup input
    entry,           \* what the user is meant to enter (a row of a table, padded)
    typed,           \* the line input() returns, a sequence of characters
    spc,             \* position of the setup code
    workers,         \* the local max_workers, once assigned
    subnet_input,    \* the subnet entered: an address and a prefix length
    network,         \* ipaddress.ip_network(subnet_input, strict=False)
    hosts            \* list(network.hosts())

engineVars == <<mode, units, max_workers, pc, nsub, fstate, behav, queue,
                num_threads, exited, idleSem, shutdownFlag, ready, waiterq,
                yielded, results_open, results_closed, active_hosts, console,
                interrupted, raising, report, ncalls, finish_order, snapshot,
                port_scans>>
engineVars_noPc == <<mode, units, max_workers, nsub, fstate, behav, queue,
                     num_threads, exited, idleSem, shutdownFlag, ready, waiterq,
                     yielded, results_open, results_closed, active_hosts, console,
                     interrupted, raising, report, ncalls, finish_order,
                     snapshot, port_scans>>
reportVars == <<summary, logged, csv_rows, json_data, export>>
parseVars == <<given, port_input, parser, ppc, tokens, pset, plist, presult>>
setupVars == <<caller, entry, typed, spc, workers, subnet_input, network, hosts>>
vars == <<engineVars, reportVars, parseVars, setupVars>>

\* ---------------------------------------------------------------- bounds
MaxUnits == 2
MaxWorkers == 2
MaxTokens == 2
MaxPad == 1
MaxHostBits == 3

\* ---------------------------------------------------------------- values
None == "None"
NoReport == [kind |-> "none"]

\* the work queue holds work items, and None as the wake-up item
WorkItem(u) == <<u>>
WakeUp == <<>>

Modes == {"ports", "sweep", "discover"}
Units == 1..MaxUnits

\* What one probe call can do: connect/ping succeeds, is refused or times out,
\* faults inside the prober's own try, or raises out of the prober.
Behaviours == {"ok", "refused", "fault", "raise"}

FaultExc == [type |-> "OSError", msg |-> "socket fault"]
RaiseExc == [type |-> "RuntimeError", msg |-> "probe raised"]

Str(e) == e.msg

\* ---------------------------------------------------------------- helpers
Range(s) == {s[i] : i \in 1..Len(s)}

PortsOf(s) == {s[i].port : i \in 1..Len(s)}

RECURSIVE InsertByPort(_, _)
InsertByPort(x, s) ==
    IF s = <<>> THEN <<x>>
    ELSE IF x.port < Head(s).port THEN <<x>> \o s
    ELSE <<Head(s)>> \o InsertByPort(x, Tail(s))

\* (variant) the list is handed back in the order it has
SortedByPort_AsIs(s) == s

\* sorted(items, key=lambda x: x["port"]): a new list, stable
RECURSIVE SortedByPort(_)
SortedByPort(s) ==
    IF s = <<>> THEN <<>>
    ELSE LET n == Len(s) IN
         InsertByPort(s[n], SortedByPort(SubSeq(s, 1, n - 1)))

IsAscending(s) == \A i \in 1..Len(s) - 1 : s[i].port < s[i + 1].port

\* ---------------------------------------------------------------- probers
\* scan_port: (port, is_open, err, elapsed); "raise" never returns a tuple
scan_port(port, b) ==
    CASE b = "ok"      -> [port |-> port, is_open |-> TRUE,  err |-> None, elapsed |-> "measured"]
      [] b = "refused" -> [port |-> port, is_open |-> FALSE, err |-> None, elapsed |-> "measured"]
      [] b = "fault"   -> [port |-> port, is_open |-> FALSE, err |-> Str(FaultExc), elapsed |-> "measured"]

\* ping_ip: True iff the ping returned 0; a fault launching it gives False
ping_ip(ip, b) ==
    CASE b = "ok"      -> TRUE
      [] b = "refused" -> FALSE
      [] b = "fault"   -> FALSE

\* ---------------------------------------------------------------- executor
\* (variant) a thread is added without looking at the limit properly
ShouldSpawn_OffByOne(n, k) == n <= k

\* _adjust_thread_count: a new thread only while len(_threads) < max_workers
ShouldSpawn(n, k) == n < k

InFlight == {u \in Units : fstate[u] = "running"}

IdleThreads == num_threads - exited - Cardinality(InFlight)

QueuedUnits == {u \in Units : \E i \in 1..Len(queue) : queue[i] = WorkItem(u)}

\* executor.submit(prober, unit) for the next unit of the list, in the dict
\* comprehension that precedes the try
Submit ==
    /\ pc = "submit"
    /\ nsub < Len(units)
    /\ LET u == units[nsub + 1] IN
        /\ fstate' = [fstate EXCEPT ![u] = "pending"]
        /\ queue' = Append(queue, WorkItem(u))
    /\ IF idleSem > 0
          THEN /\ idleSem' = idleSem - 1
               /\ UNCHANGED num_threads
          ELSE /\ UNCHANGED idleSem
               /\ num_threads' = IF ShouldSpawn(num_threads, max_workers)
                                    THEN num_threads + 1 ELSE num_threads
    /\ nsub' = nsub + 1
    /\ pc' = IF nsub + 1 = Len(units) THEN "as_completed" ELSE "submit"
    /\ UNCHANGED <<mode, units, max_workers, behav, exited, shutdownFlag, ready,
                   waiterq, yielded, results_open, results_closed, active_hosts,
                   console, interrupted, raising, report>>
    /\ UNCHANGED <<ncalls, finish_order, snapshot, port_scans>>
    /\ UNCHANGED <<reportVars, parseVars, setupVars>>

\* (variant) the item taken stays on the queue
AfterGet_Peek(q) == q

\* work_queue.get(): the item taken leaves the queue
AfterGet(q) == Tail(q)

\* _worker: work_queue.get(block=True) by an idle thread; a work item is run
\* (its future goes to RUNNING, its prober is called), None makes the thread
\* leave after shutdown
WorkerTake ==
    /\ IdleThreads > 0
    /\ queue # <<>>
    /\ LET item == Head(queue) IN
        IF item # WakeUp
           THEN /\ fstate' = [fstate EXCEPT ![item[1]] = "running"]
                /\ ncalls' = [ncalls EXCEPT ![item[1]] = @ + 1]
                /\ queue' = AfterGet(queue)
                /\ UNCHANGED exited
           ELSE /\ shutdownFlag
                /\ queue' = Append(AfterGet(queue), WakeUp)
                /\ exited' = exited + 1
                /\ UNCHANGED <<fstate, ncalls>>
    /\ UNCHANGED <<mode, units, max_workers, pc, nsub, behav, num_threads, idleSem,
                   shutdownFlag, ready, waiterq, yielded, results_open,
                   results_closed, active_hosts, console, interrupted, raising,
                   report>>
    /\ UNCHANGED <<finish_order, snapshot, port_scans>>
    /\ UNCHANGED <<reportVars, parseVars, setupVars>>

\* (variant) the worker itself appends the entry of an open port
WorkerFinish_Appends ==
    \E u \in Units, b \in Behaviours :
        /\ fstate[u] = "running"
        /\ fstate' = [fstate EXCEPT ![u] = "finished"]
        /\ behav' = [behav EXCEPT ![u] = b]
        /\ waiterq' = IF pc = "loop" THEN Append(waiterq, u) ELSE waiterq
        /\ idleSem' = idleSem + 1
        /\ finish_order' = Append(finish_order, u)
        /\ results_open' = IF mode = "ports" /\ b = "ok"
                               THEN Append(results_open, [port |-> u, elapsed |-> "measured"])
                               ELSE results_open
        /\ UNCHANGED <<mode, units, max_workers, pc, nsub, queue, num_threads,
                       exited, shutdownFlag, ready, yielded,
                       results_closed, active_hosts, console, interrupted, raising,
                       report>>
        /\ UNCHANGED <<ncalls, snapshot, port_scans>>
        /\ UNCHANGED <<reportVars, parseVars, setupVars>>

\* the probe of an in-flight unit returns (or raises): its future is FINISHED,
\* the as_completed waiter is told, the thread releases the idle semaphore;
\* the prober touches no list of the main thread
WorkerFinish ==
    \E u \in Units, b \in Behaviours :
        /\ fstate[u] = "running"
        /\ fstate' = [fstate EXCEPT ![u] = "finished"]
        /\ behav' = [behav EXCEPT ![u] = b]
        /\ waiterq' = IF pc = "loop" THEN Append(waiterq, u) ELSE waiterq
        /\ idleSem' = idleSem + 1
        /\ finish_order' = Append(finish_order, u)
        /\ UNCHANGED <<mode, units, max_workers, pc, nsub, queue, num_threads,
                       exited, shutdownFlag, ready, yielded, results_open,
                       results_closed, active_hosts, console, interrupted, raising,
                       report>>
        /\ UNCHANGED <<ncalls, snapshot, port_scans>>
        /\ UNCHANGED <<reportVars, parseVars, setupVars>>

\* as_completed(futures) is entered (inside the try): the futures already
\* finished are yielded first, in no particular order; the others as they finish
AsCompleted ==
    /\ pc = "as_completed"
    /\ ready' = {u \in Units : fstate[u] = "finished"}
    /\ snapshot' = {u \in Units : fstate[u] = "finished"}
    /\ pc' = "loop"
    /\ UNCHANGED <<mode, units, max_workers, nsub, fstate, behav, queue,
                   num_threads, exited, idleSem, shutdownFlag, waiterq, yielded,
                   results_open, results_closed, active_hosts, console, interrupted,
                   raising, report>>
    /\ UNCHANGED <<ncalls, finish_order, port_scans>>
    /\ UNCHANGED <<reportVars, parseVars, setupVars>>

\* ---------------------------------------------------------------- loop body
\* results_open.append({"port": port, "elapsed": elapsed})
OpenEntry(r) == [port |-> r.port, elapsed |-> r.elapsed]

\* (variant) a closed entry always has a text in its error field
ClosedEntry_AlwaysText(r) ==
    [port |-> r.port, error |-> IF r.err = None THEN "closed" ELSE r.err,
     elapsed |-> r.elapsed]

\* results_closed.append({"port": port, "error": err, "elapsed": elapsed})
ClosedEntry(r) == [port |-> r.port, error |-> r.err, elapsed |-> r.elapsed]

\* (variant) the except arm records the port without the exception's text
ErrorEntry_NoText(p, exc) == [port |-> p, error |-> None, elapsed |-> "0.0"]

\* the except-Exception arm of scan_ports_concurrent's loop body
ErrorEntry(p, exc) == [port |-> p, error |-> Str(exc), elapsed |-> "0.0"]

\* (variant) the test on is_open is inverted
IngestOpen_Inverted(p, b) ==
    IF b = "raise" THEN <<>>
    ELSE IF scan_port(p, b).is_open THEN <<>> ELSE <<OpenEntry(scan_port(p, b))>>

\* what the loop body of scan_ports_concurrent appends to results_open
IngestOpen(p, b) ==
    IF b = "raise" THEN <<>>
    ELSE IF scan_port(p, b).is_open THEN <<OpenEntry(scan_port(p, b))>> ELSE <<>>

\* (variant) the except arm prints the error and records nothing
IngestClosed_DropsError(p, b) ==
    IF b = "raise" THEN <<>>
    ELSE IF scan_port(p, b).is_open THEN <<>> ELSE <<ClosedEntry(scan_port(p, b))>>

\* what the loop body of scan_ports_concurrent appends to results_closed
IngestClosed(p, b) ==
    IF b = "raise" THEN <<ErrorEntry(p, RaiseExc)>>
    ELSE IF scan_port(p, b).is_open THEN <<>> ELSE <<ClosedEntry(scan_port(p, b))>>

\* the line scan_ports_concurrent prints for one future
PortLine(p, b) ==
    IF b = "raise" THEN [tag |-> "[error]", unit |-> p, text |-> Str(RaiseExc)]
    ELSE IF scan_port(p, b).is_open THEN [tag |-> "[OPEN]", unit |-> p, text |-> ""]
    ELSE [tag |-> "[closed]", unit |-> p, text |-> ""]

\* what the loop body of a ping sweep appends to active_hosts
IngestHost(ip, b) ==
    IF b = "raise" THEN <<>>
    ELSE IF ping_ip(ip, b) THEN <<ip>> ELSE <<>>

\* the line a ping sweep prints for one future
HostLine(ip, b) ==
    IF b = "raise" THEN [tag |-> "Error checking", unit |-> ip, text |-> Str(RaiseExc)]
    ELSE IF ping_ip(ip, b) THEN [tag |-> "Host up", unit |-> ip, text |-> ""]
    ELSE [tag |-> "Host down", unit |-> ip, text |-> ""]

\* (variant) the future that finished last is yielded first
NextYield_Lifo ==
    IF ready # {} THEN ready
    ELSE IF waiterq # <<>> THEN {waiterq[Len(waiterq)]} ELSE {}

\* the future as_completed yields next: one of those finished before it was
\* called, then the others in the order they finished
NextYield ==
    IF ready # {} THEN ready
    ELSE IF waiterq # <<>> THEN {Head(waiterq)} ELSE {}

\* one iteration of `for fut in as_completed(futures)`
Consume ==
    /\ pc = "loop"
    /\ \E u \in NextYield :
        /\ IF ready # {}
              THEN ready' = ready \ {u} /\ UNCHANGED waiterq
              ELSE /\ waiterq' = SelectSeq(waiterq, LAMBDA x : x # u)
                   /\ UNCHANGED ready
        /\ yielded' = yielded \cup {u}
        /\ IF mode = "ports"
              THEN /\ results_open' = results_open \o IngestOpen(u, behav[u])
                   /\ results_closed' = results_closed \o IngestClosed(u, behav[u])
                   /\ console' = Append(console, PortLine(u, behav[u]))
                   /\ UNCHANGED active_hosts
              ELSE /\ active_hosts' = active_hosts \o IngestHost(u, behav[u])
                   /\ console' = Append(console, HostLine(u, behav[u]))
                   /\ UNCHANGED <<results_open, results_closed>>
    /\ UNCHANGED <<mode, units, max_workers, pc, nsub, fstate, behav, queue,
                   num_threads, exited, idleSem, shutdownFlag, interrupted, raising,
                   report>>
    /\ UNCHANGED <<ncalls, finish_order, snapshot, port_scans>>
    /\ UNCHANGED <<reportVars, parseVars, setupVars>>

\* as_completed is exhausted: the for loop and the try end, the with-block is left
LoopEnd ==
    /\ pc = "loop"
    /\ yielded = Range(units)
    /\ pc' = "exit"
    /\ UNCHANGED <<mode, units, max_workers, nsub, fstate, behav, queue,
                   num_threads, exited, idleSem, shutdownFlag, ready, waiterq,
                   yielded, results_open, results_closed, active_hosts, console,
                   interrupted, raising, report>>
    /\ UNCHANGED <<ncalls, finish_order, snapshot, port_scans>>
    /\ UNCHANGED <<reportVars, parseVars, setupVars>>

\* ---------------------------------------------------------------- interrupt
\* where the except-KeyboardInterrupt arm of each run leads: the two scans
\* that call executor.shutdown(wait=False, cancel_futures=True), and
\* discover_active_hosts, which returns [] at once
HandlerTarget(m) == IF m = "discover" THEN "exit" ELSE "cancel"

\* Ctrl-C reaches the main thread: while submitting (before the try) it
\* propagates out of the with-block; inside the try the except arm runs
Interrupt ==
    /\ interrupted = "no"
    /\ pc \in {"submit", "as_completed", "loop"}
    /\ IF pc = "submit"
          THEN /\ interrupted' = "submit"
               /\ raising' = TRUE
               /\ pc' = "exit"
          ELSE /\ interrupted' = "loop"
               /\ pc' = HandlerTarget(mode)
               /\ UNCHANGED raising
    /\ UNCHANGED <<mode, units, max_workers, nsub, fstate, behav, queue,
                   num_threads, exited, idleSem, shutdownFlag, ready, waiterq,
                   yielded, results_open, results_closed, active_hosts, console,
                   report>>
    /\ UNCHANGED <<ncalls, finish_order, snapshot, port_scans>>
    /\ UNCHANGED <<reportVars, parseVars, setupVars>>

\* executor.shutdown(wait=False, cancel_futures=True) starts: _shutdown = True
ShutdownCancel ==
    /\ pc = "cancel"
    /\ shutdownFlag' = TRUE
    /\ pc' = "drain"
    /\ UNCHANGED <<mode, units, max_workers, nsub, fstate, behav, queue,
                   num_threads, exited, idleSem, ready, waiterq, yielded,
                   results_open, results_closed, active_hosts, console, interrupted,
                   raising, report>>
    /\ UNCHANGED <<ncalls, finish_order, snapshot, port_scans>>
    /\ UNCHANGED <<reportVars, parseVars, setupVars>>

\* (variant) no except arm ends in `raise`
Reraises_Never(m) == FALSE

\* whether the except arm ends in `raise` (scan_ports_concurrent) or falls
\* through to the end of the with-block (threaded_network_scan)
Reraises(m) == m = "ports"

\* its drain loop: one get_nowait() whose work item's future is cancelled, or
\* queue.Empty, after which None is put and the except arm goes on
Drain ==
    /\ pc = "drain"
    /\ IF queue # <<>>
          THEN /\ queue' = Tail(queue)
               /\ fstate' = IF Head(queue) # WakeUp
                               THEN [fstate EXCEPT ![Head(queue)[1]] = "cancelled"]
                               ELSE fstate
               /\ UNCHANGED <<pc, raising>>
          ELSE /\ queue' = <<WakeUp>>
               /\ raising' = Reraises(mode)
               /\ pc' = "exit"
               /\ UNCHANGED fstate
    /\ UNCHANGED <<mode, units, max_workers, nsub, behav, num_threads, exited,
                   idleSem, shutdownFlag, ready, waiterq, yielded, results_open,
                   results_closed, active_hosts, console, interrupted, report>>
    /\ UNCHANGED <<ncalls, finish_order, snapshot, port_scans>>
    /\ UNCHANGED <<reportVars, parseVars, setupVars>>

\* ThreadPoolExecutor.__exit__: shutdown(wait=True) sets _shutdown, puts None
ExitShutdown ==
    /\ pc = "exit"
    /\ shutdownFlag' = TRUE
    /\ queue' = Append(queue, WakeUp)
    /\ pc' = "join"
    /\ UNCHANGED <<mode, units, max_workers, nsub, fstate, behav, num_threads,
                   exited, idleSem, ready, waiterq, yielded, results_open,
                   results_closed, active_hosts, console, interrupted, raising,
                   report>>
    /\ UNCHANGED <<ncalls, finish_order, snapshot, port_scans>>
    /\ UNCHANGED <<reportVars, parseVars, setupVars>>

\* (variant) discover_active_hosts hands back what it has found so far
Returned_Partial(m) ==
    CASE m = "ports" ->
            [kind |-> "ports", open |-> results_open, closed |-> results_closed]
      [] m = "sweep" ->
            [kind |-> "sweep", scanned |-> Len(units), active |-> active_hosts]
      [] m = "discover" ->
            [kind |-> "discover", active |-> active_hosts]

\* what each run hands back once the with-block is left without an exception
Returned(m) ==
    CASE m = "ports" ->
            [kind |-> "ports", open |-> results_open, closed |-> results_closed]
      [] m = "sweep" ->
            [kind |-> "sweep", scanned |-> Len(units), active |-> active_hosts]
      [] m = "discover" ->
            [kind |-> "discover",
             active |-> IF interrupted = "loop" THEN <<>> ELSE active_hosts]

\* where the caller goes on with the result: main to its summary,
\* network_and_port_scanner to its test of the host list
AfterReturn(m) ==
    CASE m = "ports" -> "summary"
      [] m = "sweep" -> "done"
      [] m = "discover" -> "caller"

\* ... then joins every worker thread; after that the run returns its result,
\* or the propagating KeyboardInterrupt leaves the function
Join ==
    /\ pc = "join"
    /\ exited = num_threads
    /\ IF raising
          THEN pc' = "aborted" /\ UNCHANGED report
          ELSE /\ report' = Returned(mode)
               /\ pc' = AfterReturn(mode)
    /\ UNCHANGED <<mode, units, max_workers, nsub, fstate, behav, queue,
                   num_threads, exited, idleSem, shutdownFlag, ready, waiterq,
                   yielded, results_open, results_closed, active_hosts, console,
                   interrupted, raising>>
    /\ UNCHANGED <<ncalls, finish_order, snapshot, port_scans>>
    /\ UNCHANGED <<reportVars, parseVars, setupVars>>

\* network_and_port_scanner after discover_active_hosts: it returns at once on
\* an empty list, and on a port list that does not parse; otherwise it scans
\* the ports of each host of the list in turn
PortScanHosts ==
    /\ pc = "caller"
    /\ \E ports_ok \in BOOLEAN :
          port_scans' = IF report.active # <<>> /\ ports_ok THEN report.active ELSE <<>>
    /\ pc' = "done"
    /\ UNCHANGED <<mode, units, max_workers, nsub, fstate, behav, queue,
                   num_threads, exited, idleSem, shutdownFlag, ready, waiterq,
                   yielded, results_open, results_closed, active_hosts, console,
                   interrupted, raising, report>>
    /\ UNCHANGED <<ncalls, finish_order, snapshot>>
    /\ UNCHANGED <<reportVars, parseVars, setupVars>>

\* ---------------------------------------------------------------- main, after the scan
\* main's console summary: the open ports, sorted by port for the print
Summarize ==
    /\ pc = "summary"
    /\ summary' = SortedByPort(report.open)
    /\ pc' = "log"
    /\ UNCHANGED <<logged, csv_rows, json_data, export>>
    /\ UNCHANGED <<engineVars_noPc, parseVars, setupVars>>

\* log_scan: the open ports, sorted by port for the log
LogScan ==
    /\ pc = "log"
    /\ logged' = SortedByPort(report.open)
    /\ pc' = "export"
    /\ UNCHANGED <<summary, csv_rows, json_data, export>>
    /\ UNCHANGED <<engineVars_noPc, parseVars, setupVars>>

\* item.get("error") or ""
CsvError(e) == IF e = None THEN "" ELSE e

OpenRow(item) ==
    [status |-> "open", port |-> item.port, elapsed |-> item.elapsed, error |-> ""]

ClosedRow(item) ==
    [status |-> "closed", port |-> item.port, elapsed |-> item.elapsed,
     error |-> CsvError(item.error)]

\* (variant) export_csv writes a bucket in the order it has
CsvOrder_Unsorted(bucket) == bucket

\* the order in which export_csv writes the entries of one bucket
CsvOrder(bucket) == SortedByPort(bucket)

\* export_csv: the open rows, then the closed rows, each bucket sorted by port
export_csv(results) ==
    [i \in 1..Len(results.open) |-> OpenRow(CsvOrder(results.open)[i])]
    \o [i \in 1..Len(results.closed) |-> ClosedRow(CsvOrder(results.closed)[i])]

\* export_json: the two lists of the result as they are
export_json(results) == [open |-> results.open, closed |-> results.closed]

ExportChoices == {"n", "csv", "json", "both"}

\* main's export step
Export ==
    /\ pc = "export"
    /\ \E choice \in ExportChoices :
        /\ export' = choice
        /\ csv_rows' = IF choice \in {"csv", "both"} THEN export_csv(report) ELSE csv_rows
        /\ json_data' = IF choice \in {"json", "both"} THEN export_json(report) ELSE json_data
    /\ pc' = "done"
    /\ UNCHANGED <<summary, logged>>
    /\ UNCHANGED <<engineVars_noPc, parseVars, setupVars>>

\* ---------------------------------------------------------------- port expanders
MinPort == 1
MaxPort == 65535

DigitChars == <<"0", "1", "2", "3", "4", "5", "6", "7", "8", "9">>

IsDigit(c) == \E i \in 1..Len(DigitChars) : DigitChars[i] = c

DigitVal(c) == (CHOOSE i \in 1..Len(DigitChars) : DigitChars[i] = c) - 1

RECURSIVE DigitsVal(_)
DigitsVal(s) ==
    IF s = <<>> THEN 0
    ELSE DigitsVal(SubSeq(s, 1, Len(s) - 1)) * 10 + DigitVal(s[Len(s)])

Unsigned(s) == IF s # <<>> /\ s[1] = "-" THEN Tail(s) ELSE s

\* int(s) succeeds: an optional sign, then one or more digits
IsIntLiteral(s) ==
    /\ Unsigned(s) # <<>>
    /\ \A i \in 1..Len(Unsigned(s)) : IsDigit(Unsigned(s)[i])

\* int(s)
IntOf(s) == IF s[1] = "-" THEN 0 - DigitsVal(Unsigned(s)) ELSE DigitsVal(s)

\* port_input.replace(",", " ")
ReplaceCommas(s) == [i \in 1..Len(s) |-> IF s[i] = "," THEN " " ELSE s[i]]

RECURSIVE SplitAcc(_, _, _)
SplitAcc(s, cur, out) ==
    IF s = <<>> THEN (IF cur = <<>> THEN out ELSE Append(out, cur))
    ELSE IF Head(s) = " "
            THEN SplitAcc(Tail(s), <<>>, IF cur = <<>> THEN out ELSE Append(out, cur))
            ELSE SplitAcc(Tail(s), Append(cur, Head(s)), out)

\* s.split(): the maximal runs of non-blank characters
Split(s) == SplitAcc(s, <<>>, <<>>)

HasDash(token) == \E i \in 1..Len(token) : token[i] = "-"

FirstDash(token) ==
    CHOOSE i \in 1..Len(token) :
        token[i] = "-" /\ \A j \in 1..(i - 1) : token[j] # "-"

\* token.split("-", 1)
BeforeDash(token) == SubSeq(token, 1, FirstDash(token) - 1)
AfterDash(token) == SubSeq(token, FirstDash(token) + 1, Len(token))

\* (variant) range(start, end)
RangePorts_Exclusive(start, end) == start..(end - 1)

\* range(start, end + 1)
RangePorts(start, end) == start..end

\* parse_ports' bounds test on a port, or on the two ends of a range
OutOfBounds(lo, hi) == lo < MinPort \/ hi > MaxPort

Raised(msg, token) == [ok |-> FALSE, error |-> msg, token |-> token]

\* (variant) the bounds are tested on the two ends as written, before the swap
ParsePortsToken_CheckBeforeSwap(token, ports) ==
    IF HasDash(token)
       THEN IF ~(IsIntLiteral(BeforeDash(token)) /\ IsIntLiteral(AfterDash(token)))
               THEN Raised("Invalid range token", token)
            ELSE LET a == IntOf(BeforeDash(token))
                     b == IntOf(AfterDash(token))
                     start == IF a > b THEN b ELSE a
                     end == IF a > b THEN a ELSE b
                 IN  IF OutOfBounds(a, b)
                        THEN Raised("Invalid range token", token)
                        ELSE [ok |-> TRUE, ports |-> ports \cup RangePorts(start, end)]
       ELSE IF ~IsIntLiteral(token)
               THEN Raised("Invalid port token", token)
            ELSE IF OutOfBounds(IntOf(token), IntOf(token))
               THEN Raised("Invalid port token", token)
            ELSE [ok |-> TRUE, ports |-> ports \cup {IntOf(token)}]

\* the body of parse_ports' for loop on one token: the new `ports`, or the
\* ValueError raised
ParsePortsToken(token, ports) ==
    IF HasDash(token)
       THEN IF ~(IsIntLiteral(BeforeDash(token)) /\ IsIntLiteral(AfterDash(token)))
               THEN Raised("Invalid range token", token)
            ELSE LET a == IntOf(BeforeDash(token))
                     b == IntOf(AfterDash(token))
                     start == IF a > b THEN b ELSE a
                     end == IF a > b THEN a ELSE b
                 IN  IF OutOfBounds(start, end)
                        THEN Raised("Invalid range token", token)
                        ELSE [ok |-> TRUE, ports |-> ports \cup RangePorts(start, end)]
       ELSE IF ~IsIntLiteral(token)
               THEN Raised("Invalid port token", token)
            ELSE IF OutOfBounds(IntOf(token), IntOf(token))
               THEN Raised("Invalid port token", token)
            ELSE [ok |-> TRUE, ports |-> ports \cup {IntOf(token)}]

\* the body of parse_ports_simple's for loop on one token: ports.append(int(token))
ParseSimpleToken(token, ports) ==
    IF ~IsIntLiteral(token)
       THEN Raised("invalid literal for int()", token)
       ELSE [ok |-> TRUE, ports |-> Append(ports, IntOf(token))]

RECURSIVE InsertInt(_, _)
InsertInt(x, s) ==
    IF s = <<>> THEN <<x>>
    ELSE IF x < Head(s) THEN <<x>> \o s
    ELSE <<Head(s)>> \o InsertInt(x, Tail(s))

\* sorted(ports) of a set of ints
RECURSIVE Sorted(_)
Sorted(S) ==
    IF S = {} THEN <<>>
    ELSE LET x == CHOOSE y \in S : TRUE IN InsertInt(x, Sorted(S \ {x}))

\* the first line of each expander
Tokenize(which, s) == IF which = "parse_ports" THEN Split(ReplaceCommas(s)) ELSE Split(s)

ParseStart ==
    /\ ppc = "start"
    /\ tokens' = Tokenize(parser, port_input)
    /\ ppc' = "loop"
    /\ UNCHANGED <<given, port_input, parser, pset, plist, presult>>
    /\ UNCHANGED <<engineVars, reportVars, setupVars>>

\* one iteration of parse_ports' loop
ParsePortsStep ==
    /\ ppc = "loop"
    /\ parser = "parse_ports"
    /\ tokens # <<>>
    /\ LET r == ParsePortsToken(Head(tokens), pset) IN
        IF r.ok
           THEN /\ pset' = r.ports
                /\ tokens' = Tail(tokens)
                /\ UNCHANGED <<ppc, presult>>
           ELSE /\ presult' = r
                /\ ppc' = "raised"
                /\ UNCHANGED <<pset, tokens>>
    /\ UNCHANGED <<given, port_input, parser, plist>>
    /\ UNCHANGED <<engineVars, reportVars, setupVars>>

\* one iteration of parse_ports_simple's loop
ParseSimpleStep ==
    /\ ppc = "loop"
    /\ parser = "parse_ports_simple"
    /\ tokens # <<>>
    /\ LET r == ParseSimpleToken(Head(tokens), plist) IN
        IF r.ok
           THEN /\ plist' = r.ports
                /\ tokens' = Tail(tokens)
                /\ UNCHANGED <<ppc, presult>>
           ELSE /\ presult' = r
                /\ ppc' = "raised"
                /\ UNCHANGED <<plist, tokens>>
    /\ UNCHANGED <<given, port_input, parser, pset>>
    /\ UNCHANGED <<engineVars, reportVars, setupVars>>

\* the return statement of each expander
ParseReturn ==
    /\ ppc = "loop"
    /\ tokens = <<>>
    /\ presult' = [ok |-> TRUE,
                   ports |-> IF parser = "parse_ports" THEN Sorted(pset) ELSE plist]
    /\ ppc' = "returned"
    /\ UNCHANGED <<given, port_input, parser, tokens, pset, plist>>
    /\ UNCHANGED <<engineVars, reportVars, setupVars>>

\* ---------------------------------------------------------------- inputs
\* The tokens the expanders are run on, each with what it is meant to denote:
\* a single port, an ascending range lo-hi, a descending range hi-lo, a token
\* with a port outside [1, 65535], or a token that is no port and no range.
TokenTable == <<
    [text |-> <<"2", "2">>,                          kind |-> "single",       lo |-> 22,    hi |-> 22],
    [text |-> <<"2", "0", "-", "2", "5">>,           kind |-> "range",        lo |-> 20,    hi |-> 25],
    [text |-> <<"2", "5", "-", "2", "0">>,           kind |-> "descending",   lo |-> 20,    hi |-> 25],
    [text |-> <<"6", "5", "5", "3", "5">>,           kind |-> "single",       lo |-> 65535, hi |-> 65535],
    [text |-> <<"6", "5", "5", "3", "4", "-", "6", "5", "5", "3", "5">>,
                                                     kind |-> "range",        lo |-> 65534, hi |-> 65535],
    [text |-> <<"1">>,                               kind |-> "single",       lo |-> 1,     hi |-> 1],
    [text |-> <<"0">>,                               kind |-> "out_of_range", lo |-> 0,     hi |-> 0],
    [text |-> <<"6", "5", "5", "3", "6">>,           kind |-> "out_of_range", lo |-> 65536, hi |-> 65536],
    [text |-> <<"9", "9", "9", "9", "9">>,           kind |-> "out_of_range", lo |-> 99999, hi |-> 99999],
    [text |-> <<"0", "-", "2">>,                     kind |-> "out_of_range", lo |-> 0,     hi |-> 2],
    [text |-> <<"-", "3">>,                          kind |-> "out_of_range", lo |-> -3,    hi |-> -3],
    [text |-> <<"3", "-">>,                          kind |-> "malformed",    lo |-> 0,     hi |-> 0],
    [text |-> <<"6", "5", "5", "3", "5", "-", "6", "5", "5", "3", "4">>,
                                                     kind |-> "descending",   lo |-> 65534, hi |-> 65535],
    [text |-> <<"2", "-", "0">>,                     kind |-> "out_of_range", lo |-> 0,     hi |-> 2],
    [text |-> <<"6", "5", "5", "3", "6", "-", "6", "5", "5", "3", "5">>,
                                                     kind |-> "out_of_range", lo |-> 65535, hi |-> 65536] >>

Separators == {<<" ">>, <<",">>, <<",", " ">>}

Items == [tok : 1..Len(TokenTable), sep : Separators]

Inputs == UNION {[1..n -> Items] : n \in 0..MaxTokens}

\* the input string written from the tokens: each token after the first is
\* preceded by its separator
RECURSIVE Written(_)
Written(g) ==
    IF g = <<>> THEN <<>>
    ELSE LET n == Len(g) IN
         Written(SubSeq(g, 1, n - 1))
            \o (IF n = 1 THEN <<>> ELSE g[n].sep) \o TokenTable[g[n].tok].text

GivenKinds == {TokenTable[given[i].tok].kind : i \in 1..Len(given)}

\* the ports the given tokens denote, read as single ports and ranges
Denoted ==
    UNION {TokenTable[given[i].tok].lo .. TokenTable[given[i].tok].hi : i \in 1..Len(given)}

\* ---------------------------------------------------------------- setup input
Callers == {"main", "threaded_network_scan", "network_and_port_scanner"}

RECURSIVE LStrip(_)
LStrip(s) == IF s # <<>> /\ Head(s) = " " THEN LStrip(Tail(s)) ELSE s

RECURSIVE RStrip(_)
RStrip(s) ==
    IF s # <<>> /\ s[Len(s)] = " " THEN RStrip(SubSeq(s, 1, Len(s) - 1)) ELSE s

\* s.strip()
Strip(s) == RStrip(LStrip(s))

\* the default each caller names: the text after `or`, and the value of the
\* except-ValueError arm
DefaultText(c) == IF c = "main" THEN <<"2", "0", "0">> ELSE <<"1", "0", "0">>
Default(c) == IF c = "main" THEN 200 ELSE 100

\* the upper limit each caller passes to min()
Ceiling(c) == IF c = "main" THEN 1000 ELSE 500

\* input(...).strip() or "200"
OrDefault(c, s) == IF s = <<>> THEN DefaultText(c) ELSE s

Min(a, b) == IF a < b THEN a ELSE b
Max(a, b) == IF a > b THEN a ELSE b

\* (variant) only the upper limit is applied
Clamp_NoFloor(c, n) == Min(Ceiling(c), n)

\* max(1, min(ceiling, max_workers))
Clamp(c, n) == Max(1, Min(Ceiling(c), n))

\* where each caller goes once max_workers is assigned, once the host list is
\* built, and where it starts
AfterWorkers(c) == IF c = "network_and_port_scanner" THEN "network" ELSE "ready"
AfterHosts(c) == IF c = "threaded_network_scan" THEN "workers" ELSE "ready"
FirstStep(c) == IF c = "threaded_network_scan" THEN "network" ELSE "workers"

\* max_workers = int(input(...).strip() or default), with its except arm
AskWorkers ==
    /\ spc = "workers"
    /\ LET text == OrDefault(caller, Strip(typed)) IN
        IF IsIntLiteral(text)
           THEN workers' = IntOf(text) /\ spc' = "clamp"
           ELSE workers' = Default(caller) /\ spc' = AfterWorkers(caller)
    /\ UNCHANGED <<caller, entry, typed, subnet_input, network, hosts>>
    /\ UNCHANGED <<engineVars, reportVars, parseVars>>

\* max_workers = max(1, min(ceiling, max_workers))
ClampWorkers ==
    /\ spc = "clamp"
    /\ workers' = Clamp(caller, workers)
    /\ spc' = AfterWorkers(caller)
    /\ UNCHANGED <<caller, entry, typed, subnet_input, network, hosts>>
    /\ UNCHANGED <<engineVars, reportVars, parseVars>>

\* IPv4: four octets
AddressBits == 4 * 8

BlockSize(prefixlen) == 2 ^ (AddressBits - prefixlen)

\* ipaddress.ip_network(subnet_input, strict=False): the host bits are cleared
ip_network(sub) ==
    [address |-> sub.address - (sub.address % BlockSize(sub.prefixlen)),
     prefixlen |-> sub.prefixlen]

broadcast_address(net) == net.address + BlockSize(net.prefixlen) - 1

\* (variant) the addresses from the network address on
NetworkHosts_FromNetwork(net) ==
    IF net.prefixlen = AddressBits - 1 THEN <<net.address, net.address + 1>>
    ELSE IF net.prefixlen = AddressBits THEN <<net.address>>
    ELSE [i \in 1..(broadcast_address(net) - net.address) |-> net.address + i - 1]

\* network.hosts(): the addresses strictly between the network address and
\* the broadcast address; every address of a /31 and of a /32
NetworkHosts(net) ==
    IF net.prefixlen = AddressBits - 1 THEN <<net.address, net.address + 1>>
    ELSE IF net.prefixlen = AddressBits THEN <<net.address>>
    ELSE [i \in 1..(broadcast_address(net) - net.address - 1) |-> net.address + i]

\* network = ipaddress.ip_network(subnet_input, strict=False)
IpNetwork ==
    /\ spc = "network"
    /\ network' = ip_network(subnet_input)
    /\ spc' = "hosts"
    /\ UNCHANGED <<caller, entry, typed, workers, subnet_input, hosts>>
    /\ UNCHANGED <<engineVars, reportVars, parseVars>>

\* hosts = list(network.hosts()), and the return on an empty list
ListHosts ==
    /\ spc = "hosts"
    /\ hosts' = NetworkHosts(network)
    /\ spc' = IF NetworkHosts(network) = <<>> THEN "returned" ELSE AfterHosts(caller)
    /\ UNCHANGED <<caller, entry, typed, workers, subnet_input, network>>
    /\ UNCHANGED <<engineVars, reportVars, parseVars>>

\* What the user may type for the worker count, each with what it denotes:
\* an integer, nothing, or a text that is no integer.
WorkerTable == <<
    [text |-> <<"0">>,                     kind |-> "int",     val |-> 0],
    [text |-> <<"-", "5">>,                kind |-> "int",     val |-> -5],
    [text |-> <<"1">>,                     kind |-> "int",     val |-> 1],
    [text |-> <<"5", "0">>,                kind |-> "int",     val |-> 50],
    [text |-> <<"5", "0", "0">>,           kind |-> "int",     val |-> 500],
    [text |-> <<"5", "0", "1">>,           kind |-> "int",     val |-> 501],
    [text |-> <<"1", "0", "0", "0">>,      kind |-> "int",     val |-> 1000],
    [text |-> <<"1", "0", "0", "1">>,      kind |-> "int",     val |-> 1001],
    [text |-> <<"9", "9", "9", "9", "9">>, kind |-> "int",     val |-> 99999],
    [text |-> <<>>,                        kind |-> "empty",   val |-> 0],
    [text |-> <<"a", "b", "c">>,           kind |-> "not_int", val |-> 0],
    [text |-> <<"2", ".", "5">>,           kind |-> "not_int", val |-> 0],
    [text |-> <<"1", " ", "0">>,           kind |-> "not_int", val |-> 0],
    [text |-> <<"3", "-">>,                kind |-> "not_int", val |-> 0] >>

Blanks(n) == [i \in 1..n |-> " "]

Entries == [row : 1..Len(WorkerTable), left : 0..MaxPad, right : 0..MaxPad]

\* the line typed: the text of the row between its blanks
Typed(e) == Blanks(e.left) \o WorkerTable[e.row].text \o Blanks(e.right)

\* the subnets entered: an address of 10.0.0.0/(32 - MaxHostBits) with one of
\* the prefix lengths from there up to /32
Subnets ==
    [address : {10 * (2 ^ 24) + d : d \in 0..(2 ^ MaxHostBits - 1)},
     prefixlen : (AddressBits - MaxHostBits)..AddressBits]

NoSubnet == [address |-> 0, prefixlen |-> 0]

\* ---------------------------------------------------------------- specifications
EngineIdle ==
    /\ mode = "ports" /\ units = <<>> /\ max_workers = 1 /\ pc = "off" /\ nsub = 0
    /\ fstate = [u \in Units |-> "none"] /\ behav = [u \in Units |-> "none"]
    /\ queue = <<>> /\ num_threads = 0 /\ exited = 0 /\ idleSem = 0
    /\ shutdownFlag = FALSE /\ ready = {} /\ waiterq = <<>> /\ yielded = {}
    /\ results_open = <<>> /\ results_closed = <<>> /\ active_hosts = <<>>
    /\ console = <<>> /\ interrupted = "no" /\ raising = FALSE /\ report = NoReport
    /\ ncalls = [u \in Units |-> 0] /\ finish_order = <<>> /\ snapshot = {}
    /\ port_scans = <<>>

ReportIdle ==
    /\ summary = <<>> /\ logged = <<>> /\ csv_rows = <<>>
    /\ json_data = [open |-> <<>>, closed |-> <<>>] /\ export = ""

ParseIdle ==
    /\ given = <<>> /\ port_input = <<>> /\ parser = "none" /\ ppc = "off"
    /\ tokens = <<>> /\ pset = {} /\ plist = <<>>
    /\ presult = [ok |-> FALSE, error |-> "", token |-> <<>>]

SetupIdle ==
    /\ caller = "none" /\ entry = [row |-> 0] /\ typed = <<>> /\ spc = "off"
    /\ workers = 0 /\ subnet_input = NoSubnet /\ network = NoSubnet /\ hosts = <<>>

\* a pooled run about to submit its units
Init ==
    /\ mode \in Modes
    /\ units \in {[i \in 1..n |-> i] : n \in 1..MaxUnits}
    /\ max_workers \in 1..MaxWorkers
    /\ pc = "submit" /\ nsub = 0
    /\ fstate = [u \in Units |-> "none"] /\ behav = [u \in Units |-> "none"]
    /\ queue = <<>> /\ num_threads = 0 /\ exited = 0 /\ idleSem = 0
    /\ shutdownFlag = FALSE /\ ready = {} /\ waiterq = <<>> /\ yielded = {}
    /\ results_open = <<>> /\ results_closed = <<>> /\ active_hosts = <<>>
    /\ console = <<>> /\ interrupted = "no" /\ raising = FALSE /\ report = NoReport
    /\ ncalls = [u \in Units |-> 0] /\ finish_order = <<>> /\ snapshot = {}
    /\ port_scans = <<>>
    /\ ReportIdle
    /\ ParseIdle
    /\ SetupIdle

Next ==
    \/ Submit \/ WorkerTake \/ WorkerFinish \/ AsCompleted \/ Consume \/ LoopEnd
    \/ Interrupt \/ ShutdownCancel \/ Drain \/ ExitShutdown \/ Join
    \/ PortScanHosts \/ Summarize \/ LogScan \/ Export

Spec == Init /\ [][Next]_vars

\* an expander about to run on an input string
InitParse ==
    /\ given \in Inputs
    /\ port_input = Written(given)
    /\ parser \in {"parse_ports", "parse_ports_simple"}
    /\ ppc = "start"
    /\ tokens = <<>> /\ pset = {} /\ plist = <<>>
    /\ presult = [ok |-> FALSE, error |-> "", token |-> <<>>]
    /\ EngineIdle
    /\ ReportIdle
    /\ SetupIdle

NextParse == ParseStart \/ ParsePortsStep \/ ParseSimpleStep \/ ParseReturn

SpecParse == InitParse /\ [][NextParse]_vars

\* a caller about to read its setup input
InitSetup ==
    /\ caller \in Callers
    /\ entry \in Entries
    /\ typed = Typed(entry)
    /\ spc = FirstStep(caller)
    /\ workers = 0
    /\ subnet_input \in IF caller = "main" THEN {NoSubnet} ELSE Subnets
    /\ network = NoSubnet /\ hosts = <<>>
    /\ EngineIdle
    /\ ReportIdle
    /\ ParseIdle

NextSetup == AskWorkers \/ ClampWorkers \/ IpNetwork \/ ListHosts

SpecSetup == InitSetup /\ [][NextSetup]_vars

\* ---------------------------------------------------------------- properties
\* the units of the list, and those handed to the executor so far
Listed == Range(units)
Submitted == {units[i] : i \in 1..nsub}

\* the number of entries of bucket s that are about unit u
CountIn(s, u) == Cardinality({i \in 1..Len(s) : s[i].port = u})

\* C1: when scan_ports_concurrent returns from a run that was not
\* interrupted, every submitted port has exactly one entry over the two
\* returned buckets, and the bucket sizes add up to the number of ports.
C1_Totality ==
    (report.kind = "ports" /\ interrupted = "no") =>
        /\ Len(report.open) + Len(report.closed) = Len(units)
        /\ \A u \in Listed : CountIn(report.open, u) + CountIn(report.closed, u) = 1
        /\ PortsOf(report.open) \cup PortsOf(report.closed) = Listed

\* a returned port scan in which one probe raised and another answered open
C1_Witness ==
    /\ report.kind = "ports"
    /\ Len(units) = 2
    /\ \E u \in Listed : behav[u] = "raise"
    /\ \E u \in Listed : behav[u] = "ok"

NeverDispatched == {u \in Submitted : fstate[u] = "cancelled"}

C3_BoundedInFlight ==
    /\ Cardinality(InFlight) <= max_workers
    /\ \A u \in Submitted : fstate[u] = "pending" => u \in QueuedUnits

\* every worker is busy while a further unit waits in the queue
C3_Witness ==
    /\ Cardinality(InFlight) = max_workers
    /\ \E u \in Submitted : fstate[u] = "pending" /\ u \in QueuedUnits

\* the console line of the given kind for unit u
Printed(tag, u, text) ==
    \E i \in 1..Len(console) :
        console[i] = [tag |-> tag, unit |-> u, text |-> text]

\* C4: a probe that raises is recorded with the exception's text (a closed
\* entry with that error in the port scan, an error line in the sweeps), and
\* the run goes on: every other unit is probed, gets its own outcome, and the
\* run returns its result.
C4_FaultIsolated ==
    (report.kind # "none" /\ interrupted = "no") =>
        /\ \A u \in Listed : fstate[u] = "finished" /\ u \in yielded
        /\ \A u \in Listed :
            IF mode = "ports"
               THEN /\ behav[u] = "raise" =>
                        /\ \E i \in 1..Len(report.closed) :
                              /\ report.closed[i].port = u
                              /\ report.closed[i].error = RaiseExc.msg
                        /\ Printed("[error]", u, RaiseExc.msg)
                    /\ behav[u] = "ok" => CountIn(report.open, u) = 1
                    /\ behav[u] \in {"refused", "fault"} => CountIn(report.closed, u) = 1
               ELSE /\ behav[u] = "raise" => Printed("Error checking", u, RaiseExc.msg)
                    /\ behav[u] = "ok" => Printed("Host up", u, "")
                    /\ behav[u] \in {"refused", "fault"} => Printed("Host down", u, "")

\* a returned port scan in which the first probe to come back raised and a
\* later one answered
C4_Witness ==
    /\ report.kind = "ports"
    /\ Len(console) = 2
    /\ console[1].tag = "[error]"
    /\ console[2].tag = "[OPEN]"

\* the except-KeyboardInterrupt arm of the run has finished
CancelHandled == interrupted = "loop" /\ pc \in {"exit", "join", "aborted", "done"}

\* C5 (as stated): once the interrupt has been handled, no unit that had not
\* been started by a worker is started afterwards, in any of the three runs
\* and also while the pool is shut down on leaving the with-block.
C5_NoDispatchAfterCancel ==
    [][CancelHandled =>
          \A u \in Units : fstate[u] = "pending" => fstate'[u] # "running"]_vars

\* C6 (as stated): after the interrupt has been handled the run completes as
\* soon as the probes in flight have returned: once none is in flight while
\* the run waits for its pool, no unit is left in the queue to be dispatched
\* and probed first.
C6_CompletesAfterInFlight ==
    (interrupted = "loop" /\ pc = "join" /\ InFlight = {}) => QueuedUnits = {}

Answered(b) == {u \in Listed : behav[u] = b}

PlainClosed(bucket) ==
    {bucket[i].port : i \in {j \in 1..Len(bucket) : bucket[j].error = None}}

\* C7: a unit is in the open (up) bucket iff its probe answered open (up),
\* and is a closed entry without error iff its probe answered closed; when
\* every probe answered open or closed the report has as many open entries
\* as probes that answered open, as many closed entries as probes that
\* answered closed, and no entry with an error.
C7_BucketsFollowAnswers ==
    (report.kind # "none" /\ interrupted = "no") =>
        IF mode = "ports"
           THEN /\ PortsOf(report.open) = Answered("ok")
                /\ PlainClosed(report.closed) = Answered("refused")
                /\ (\A u \in Listed : behav[u] \in {"ok", "refused"}) =>
                      /\ Len(report.open) = Cardinality(Answered("ok"))
                      /\ Len(report.closed) = Cardinality(Answered("refused"))
                      /\ \A i \in 1..Len(report.closed) : report.closed[i].error = None
           ELSE /\ Range(report.active) = Answered("ok")
                /\ Len(report.active) = Cardinality(Answered("ok"))

\* a returned port scan with one port answered open and one answered closed
C7_Witness ==
    /\ report.kind = "ports"
    /\ Cardinality(Answered("ok")) = 1
    /\ Cardinality(Answered("refused")) = 1

\* the ports of the console lines with the given tag, in printing order
PortsPrinted(tag) ==
    LET HasTag(line) == line.tag = tag
        lines == SelectSeq(console, HasTag)
    IN  [i \in 1..Len(lines) |-> lines[i].unit]

InOrder(s) == [i \in 1..Len(s) |-> s[i].port]

AscendingInts(s) == \A i \in 1..Len(s) - 1 : s[i] < s[i + 1]

\* C9: on an input of valid tokens only (single ports and ascending ranges,
\* separated by blanks and/or commas, overlapping or repeated), parse_ports
\* returns the strictly ascending list of exactly the ports the tokens denote.
C9_ParsePortsUnion ==
    (parser = "parse_ports" /\ ppc \in {"returned", "raised"}
        /\ GivenKinds \subseteq {"single", "range"}) =>
        /\ presult.ok
        /\ AscendingInts(presult.ports)
        /\ Range(presult.ports) = Denoted

\* parse_ports has returned 20..25 for "20-25", and also for "22,20-25"
C9_Witness ==
    /\ parser = "parse_ports" /\ ppc = "returned"
    /\ presult.ports = <<20, 21, 22, 23, 24, 25>>
    /\ port_input \in {<<"2", "0", "-", "2", "5">>,
                       <<"2", "2", ",", "2", "0", "-", "2", "5">>}

\* C10 (as stated): every expander fails on an input that holds a port
\* outside [1, 65535], and never returns a list with such a port in it.
C10_RejectsOutOfRange ==
    /\ (ppc \in {"returned", "raised"} /\ "out_of_range" \in GivenKinds) => ppc = "raised"
    /\ ppc = "returned" =>
          \A i \in 1..Len(presult.ports) : presult.ports[i] \in MinPort..MaxPort

Row == WorkerTable[entry.row]

\* C11: the worker count a caller hands to its executor is at least 1 and at
\* most the caller's ceiling: an integer entered is clamped into [1, 1000] by
\* the port scanner and into [1, 500] by the ping sweeps, and an entry that
\* is empty or no integer gives the default (200, respectively 100).
C11_WorkersClamped ==
    spc = "ready" =>
        LET lo == 1
            hi == IF caller = "main" THEN 1000 ELSE 500
            dflt == IF caller = "main" THEN 200 ELSE 100
        IN  /\ workers >= lo /\ workers <= hi
            /\ Row.kind = "int" =>
                  workers = (IF Row.val < lo THEN lo
                             ELSE IF Row.val > hi THEN hi ELSE Row.val)
            /\ Row.kind # "int" => workers = dflt

\* a ping sweep about to start its pool with 1 worker after -5 was entered
C11_Witness ==
    /\ spc = "ready" /\ caller = "threaded_network_scan"
    /\ Row.val = -5 /\ workers = 1

\* C12 (as stated): a probe whose mechanism faulted (the socket call raised
\* inside scan_port, the ping could not be launched inside ping_ip) is
\* recorded as an error, apart from a closed port and from a host that is
\* down: its closed entry carries the error text, its console line is not
\* the "Host down" line.
C12_FaultIsError ==
    \A u \in yielded :
        behav[u] = "fault" =>
            IF mode = "ports"
               THEN \E i \in 1..Len(results_closed) :
                        /\ results_closed[i].port = u
                        /\ results_closed[i].error # None
               ELSE ~Printed("Host down", u, "")

\* C13: an entry carries an error text only when its probe faulted or raised:
\* an open entry has no error field at all, the closed entry of a port that
\* answered closed has error None, that of a probe that faulted or raised has
\* a text; the CSV rows follow (an empty error column unless the probe
\* faulted or raised).
C13_ErrorOnlyOnError ==
    mode = "ports" =>
        /\ \A i \in 1..Len(results_open) :
              /\ "error" \notin DOMAIN results_open[i]
              /\ behav[results_open[i].port] = "ok"
        /\ \A i \in 1..Len(results_closed) :
              /\ behav[results_closed[i].port] = "refused"
                    => results_closed[i].error = None
              /\ results_closed[i].error # None
                    => behav[results_closed[i].port] \in {"fault", "raise"}
        /\ \A i \in 1..Len(csv_rows) :
              /\ csv_rows[i].status = "open" => csv_rows[i].error = ""
              /\ behav[csv_rows[i].port] = "refused" => csv_rows[i].error = ""
              /\ csv_rows[i].error # "" => behav[csv_rows[i].port] \in {"fault", "raise"}

\* a CSV export of a scan with one open port and one that answered closed
C13_Witness ==
    /\ mode = "ports" /\ pc = "done" /\ Len(csv_rows) = 2
    /\ Len(results_open) = 1
    /\ Len(results_closed) = 1 /\ results_closed[1].error = None

\* the host list has been built
HostsListed ==
    \/ caller = "threaded_network_scan" /\ spc \in {"workers", "clamp", "ready", "returned"}
    \/ caller = "network_and_port_scanner" /\ spc \in {"ready", "returned"}

\* the addresses of the subnet entered: those that agree with the entered
\* address on the first prefixlen bits
Block(sub) ==
    LET size == 2 ^ (32 - sub.prefixlen) IN
    {a \in (sub.address - size + 1)..(sub.address + size - 1) :
        a \div size = sub.address \div size}

Lowest(S) == CHOOSE a \in S : \A b \in S : a <= b
Highest(S) == CHOOSE a \in S : \A b \in S : a >= b

NoRepeats(s) == Len(s) = Cardinality(Range(s))

Perms(s) ==
    LET n == Len(s)
        bij == {f \in [1..n -> 1..n] : \A i, j \in 1..n : i # j => f[i] # f[j]}
    IN  {[i \in 1..n |-> s[f[i]]] : f \in bij}

\* C15: sorting a bucket by port gives one order whatever the order in which
\* its entries were ingested, sorting the sorted list changes nothing, the
\* summary, the log and the CSV export, which each sort the same bucket, come
\* to the same order, and the bucket itself is left in the order in which it
\* was filled.
C15_SortIsPure ==
    (mode = "ports" /\ pc \in {"export", "done"}) =>
        /\ \A q \in Perms(report.open) : SortedByPort(q) = summary
        /\ SortedByPort(summary) = summary
        /\ logged = summary
        /\ export \in {"csv", "both"} =>
              LET no == Len(report.open)
                  nc == Len(report.closed)
              IN  /\ InOrder(SubSeq(csv_rows, 1, no)) = InOrder(summary)
                  /\ \A q \in Perms(report.closed) :
                        InOrder(SubSeq(csv_rows, no + 1, no + nc)) = InOrder(SortedByPort(q))
        /\ report.open = results_open /\ report.closed = results_closed
        /\ InOrder(report.open) = PortsPrinted("[OPEN]")

\* summary, log and CSV written from an open bucket that was filled with the
\* higher port first
C15_Witness ==
    /\ mode = "ports" /\ pc = "done" /\ export = "csv"
    /\ Len(report.open) = 2 /\ ~IsAscending(report.open)
    /\ IsAscending(summary) /\ logged = summary

\* C16: the prober is called at most once for a unit, in every run (nothing
\* is retried); when a run that was not interrupted returns, it has been
\* called exactly once for every unit of the list.
C16_ProbedOnce ==
    /\ \A u \in Units : ncalls[u] <= 1
    /\ \A u \in Units : u \notin Submitted => ncalls[u] = 0
    /\ (report.kind # "none" /\ interrupted = "no") =>
          \A u \in Listed : ncalls[u] = 1

\* a returned sweep of two hosts, one probe of which raised: both were probed
\* once
C16_Witness ==
    /\ mode = "sweep" /\ report.kind = "sweep" /\ interrupted = "no"
    /\ Len(units) = 2
    /\ \E u \in Listed : behav[u] = "raise"
    /\ \A u \in Listed : ncalls[u] = 1

Buckets == <<results_open, results_closed, active_hosts>>

EntriesKept == Len(results_open) + Len(results_closed) + Len(active_hosts)

IsPrefix(s, t) == Len(s) <= Len(t) /\ SubSeq(t, 1, Len(s)) = s

\* C17: the buckets (results_open, results_closed, active_hosts) change only
\* in a step of the consuming loop, which takes one future from as_completed
\* and appends one entry for it to one bucket; a step in which a worker
\* takes, runs or finishes a probe, and every other step, leaves them as
\* they are. In the port scan every future taken gets its entry.
C17_OnlyConsumerAppends ==
    [][/\ (fstate' # fstate \/ behav' # behav \/ queue' # queue \/ exited' # exited)
            => Buckets' = Buckets
       /\ Buckets' # Buckets =>
            /\ pc = "loop" /\ pc' = "loop"
            /\ \E u \in Units \ yielded : yielded' = yielded \cup {u}
            /\ EntriesKept' = EntriesKept + 1
            /\ IsPrefix(results_open, results_open')
            /\ IsPrefix(results_closed, results_closed')
            /\ IsPrefix(active_hosts, active_hosts')
       /\ (mode = "ports" /\ yielded' # yielded) => EntriesKept' = EntriesKept + 1
      ]_vars

\* the loop has filled a bucket while another probe was in flight
C17_Witness ==
    /\ pc = "loop" /\ EntriesKept = 1
    /\ InFlight # {}

\* the units in the order the loop body has ingested their outcomes
Ingested == [i \in 1..Len(console) |-> console[i].unit]

\* the place of unit u in the order in which the probes finished
FinishPos(u) == CHOOSE i \in 1..Len(finish_order) : finish_order[i] = u

\* an outcome is there for the loop to take
Unconsumed == {u \in Units : fstate[u] = "finished" /\ u \notin yielded}

DiscoverOver == mode = "discover" /\ pc \in {"caller", "done", "aborted"}

\* C19 (as stated): discover_active_hosts is all-or-nothing: not interrupted,
\* it returns exactly the hosts that are up, each once; interrupted at any
\* point, it returns the empty list, and its caller scans no port.
C19_AllOrNothing ==
    DiscoverOver =>
        /\ report.kind = "discover"
        /\ interrupted = "no" =>
              Range(report.active) = Answered("ok") /\ NoRepeats(report.active)
        /\ interrupted # "no" => report.active = <<>> /\ port_scans = <<>>

\* C19 (amended): discover_active_hosts never returns a partial list: not
\* interrupted, it returns exactly the hosts that are up, each once;
\* interrupted inside its as_completed loop, it returns the empty list
\* whatever it has found, and its caller scans no port; interrupted while the
\* hosts are being submitted, it returns nothing (the interrupt leaves it and
\* its caller), and no port is scanned either. Ports are scanned only on the
\* complete list.
C19_EmptyOrComplete ==
    mode = "discover" =>
        /\ report.kind \in {"none", "discover"}
        /\ report.kind = "discover" =>
              /\ interrupted \in {"no", "loop"}
              /\ interrupted = "no" =>
                    /\ Range(report.active) = Answered("ok")
                    /\ NoRepeats(report.active)
                    /\ \A u \in Listed : fstate[u] = "finished"
              /\ interrupted = "loop" => report.active = <<>>
        /\ DiscoverOver =>
              /\ interrupted = "submit" <=> pc = "aborted"
              /\ interrupted = "submit" <=> report = NoReport
        /\ interrupted # "no" => port_scans = <<>>
        /\ port_scans # <<>> => port_scans = report.active

\* a sweep interrupted after it had found a host: the caller got the empty
\* list and has returned without a port scan
C19_Witness ==
    /\ mode = "discover" /\ pc = "done" /\ interrupted = "loop"
    /\ active_hosts # <<>>
    /\ report.active = <<>> /\ port_scans = <<>>

\* the given tokens that are ranges, written either way
GivenRanges == {i \in 1..Len(given) : TokenTable[given[i].tok].lo < TokenTable[given[i].tok].hi}

\* C20: parse_ports takes a range written either way: "b-a" gives the ports
\* a..b as "a-b" does, alone or among other tokens, and a range token is
\* refused exactly when its smaller end is below 1 or its larger end above
\* 65535, whichever end is written first.
C20_DescendingRange ==
    (parser = "parse_ports" /\ ppc \in {"returned", "raised"}) =>
        /\ GivenKinds \subseteq {"single", "range", "descending"} =>
              /\ presult.ok
              /\ AscendingInts(presult.ports)
              /\ Range(presult.ports) = Denoted
        /\ (Len(given) = 1 /\ GivenRanges # {}) =>
              (presult.ok <=> (TokenTable[given[1].tok].lo >= 1
                               /\ TokenTable[given[1].tok].hi <= 65535))
        /\ (\E i \in GivenRanges : TokenTable[given[i].tok].lo < 1
                                   \/ TokenTable[given[i].tok].hi > 65535)
              => ~presult.ok

\* parse_ports has returned 20..25 for "25-20"
C20_Witness ==
    /\ parser = "parse_ports" /\ ppc = "returned"
    /\ port_input = <<"2", "5", "-", "2", "0">>
    /\ presult.ports = <<20, 21, 22, 23, 24, 25>>

====
